---- MODULE Spec2Model ----
(***************************************************************************)
(* PDF-Customizer: split_pdf.create_exploring_ai_report and                *)
(* generate_report.generate_exploring_ai_report as state machines.         *)
(*                                                                         *)
(* One run of create_exploring_ai_report is a walk of pc through           *)
(*   validate_input -> read -> validate_ranges -> part1 -> part2           *)
(*   -> mkdir -> open -> write -> returned                                 *)
(* and any step may end the run in "raised".  The pypdf reader is modelled *)
(* by what the code uses of it: len(reader.pages) and reader.pages[i] with *)
(* Python's sequence indexing (a negative index counts from the end, an    *)
(* index outside -len..len-1 raises IndexError).  A page is identified by  *)
(* its 0-based position in the source document.                            *)
(***************************************************************************)
EXTENDS Integers, Sequences, FiniteSets, TLC

VARIABLES
    input_kind,         \* what input_path names on disk
    doc_pages,          \* number of pages of the source document
    pages_first_range,  \* <<start, end>>, 1-indexed
    pages_skip_range,   \* <<start, end>>, 1-indexed
    pc,                 \* position in create_exploring_ai_report
    total_pages,        \* len(reader.pages), None before the reader is open
    i,                  \* loop variable of the two for loops
    reads,              \* every index i used in reader.pages[i], in order
    writer,             \* source pages appended to the PdfWriter, in order
    pages_added,        \* the counter of lines 114-130
    out_file,           \* the file at output_path
    error,              \* the exception that left the function
    g_pc,               \* position in generate_exploring_ai_report
    g_total,            \* its total_pages
    g_i,                \* its loop variable
    g_writer,           \* its PdfWriter
    g_file              \* the file at its output_filename

vars == <<input_kind, doc_pages, pages_first_range, pages_skip_range, pc,
          total_pages, i, reads, writer, pages_added, out_file, error,
          g_pc, g_total, g_i, g_writer, g_file>>

s_vars == <<pc, total_pages, i, reads, writer, pages_added, out_file, error>>
g_vars == <<g_pc, g_total, g_i, g_writer, g_file>>
env_vars == <<input_kind, doc_pages, pages_first_range, pages_skip_range>>

----------------------------------------------------------------------------
\* Bounds of the model.
MaxPages == 5
MaxBound == 5
NegBound == 2
MaxDefaultPages == 20

\* Stands for an unset value and for a raised IndexError; no page index or
\* page count is negative.
None == 0 - 1

InputKinds == {"missing", "not_file", "not_pdf", "ok"}

DefaultFirstRange == <<1, 10>>
DefaultSkipRange == <<11, 13>>

RangeBounds == (0 - NegBound)..MaxBound

NoError == [type |-> "none", msg |-> "none", bound |-> 0, total |-> 0]

Exc(t, m, b, n) == [type |-> t, msg |-> m, bound |-> b, total |-> n]

AbsentFile == [state |-> "absent", pages |-> <<>>]
PartialFile == [state |-> "partial", pages |-> <<>>]
CompleteFile(ps) == [state |-> "complete", pages |-> ps]

----------------------------------------------------------------------------
\* split_pdf.py

first_start_idx == pages_first_range[1] - 1
first_end_idx == pages_first_range[2]
skip_start_idx == pages_skip_range[1] - 1
skip_end_idx == pages_skip_range[2]

second_start_idx_shifted == skip_end_idx - 1
second_start_idx == skip_end_idx

\* validate_input_file: the exception it raises, NoError when it returns.
validate_input_file(kind) ==
    IF kind = "missing" THEN Exc("FileNotFoundError", "input_not_found", 0, 0)
    ELSE IF kind = "not_file" THEN Exc("ValueError", "input_not_a_file", 0, 0)
    ELSE IF kind = "not_pdf" THEN Exc("ValueError", "input_must_be_pdf", 0, 0)
    ELSE NoError

FirstEndExceeds_lax(fe, n) == fe > n + 1
FirstEndExceeds(fe, n) == fe > n

SkipStartExceeds_lax(ss, n) == ss > n
SkipStartExceeds(ss, n) == ss >= n

\* The three range checks, in the order of the code.
ValidatePageRanges(n) ==
    IF FirstEndExceeds(first_end_idx, n)
    THEN Exc("ValueError", "first_range_end_exceeds_total", pages_first_range[2], n)
    ELSE IF first_start_idx < 0
    THEN Exc("ValueError", "first_range_start_below_1", pages_first_range[1], n)
    ELSE IF SkipStartExceeds(skip_start_idx, n)
    THEN Exc("ValueError", "skip_range_start_exceeds_total", pages_skip_range[1], n)
    ELSE NoError

\* The except clauses: FileNotFoundError and ValueError pass, the rest
\* becomes IOError("Failed to process PDF: <the message of e>").
Handle(e) ==
    IF e.type \in {"FileNotFoundError", "ValueError"} THEN e
    ELSE Exc("IOError", e.msg, e.bound, e.total)

\* reader.pages[k] on a document of n pages: the page, or None for IndexError.
PageAt(k, n) ==
    IF k >= 0 /\ k < n THEN k
    ELSE IF k < 0 /\ k + n >= 0 THEN k + n
    ELSE None

Raise(e) ==
    /\ pc' = "raised"
    /\ error' = e

Init ==
    /\ input_kind \in InputKinds
    /\ \/ /\ pages_first_range = DefaultFirstRange
          /\ pages_skip_range = DefaultSkipRange
          /\ doc_pages \in 0..MaxDefaultPages
       \/ /\ pages_first_range \in RangeBounds \X RangeBounds
          /\ pages_skip_range \in RangeBounds \X RangeBounds
          /\ doc_pages \in 0..MaxPages
    /\ pc = "validate_input"
    /\ total_pages = None
    /\ i = 0
    /\ reads = <<>>
    /\ writer = <<>>
    /\ pages_added = 0
    /\ out_file = AbsentFile
    /\ error = NoError
    /\ g_pc = "g_idle"
    /\ g_total = None
    /\ g_i = 0
    /\ g_writer = <<>>
    /\ g_file = AbsentFile

ValidateInput ==
    /\ pc = "validate_input"
    /\ LET e == validate_input_file(input_kind) IN
         IF e # NoError
         THEN Raise(e)
         ELSE pc' = "read" /\ error' = error
    /\ UNCHANGED <<total_pages, i, reads, writer, pages_added, out_file>>
    /\ UNCHANGED <<env_vars, g_vars>>

OpenReader ==
    /\ pc = "read"
    /\ total_pages' = doc_pages
    /\ pc' = "validate_ranges"
    /\ UNCHANGED <<i, reads, writer, pages_added, out_file, error>>
    /\ UNCHANGED <<env_vars, g_vars>>

OpenReaderFails ==
    /\ pc = "read"
    /\ Raise(Handle(Exc("PdfReadError", "cannot_read_pdf", 0, 0)))
    /\ UNCHANGED <<total_pages, i, reads, writer, pages_added, out_file>>
    /\ UNCHANGED <<env_vars, g_vars>>

ValidateRanges ==
    /\ pc = "validate_ranges"
    /\ LET e == ValidatePageRanges(total_pages) IN
         IF e # NoError
         THEN Raise(Handle(e)) /\ i' = i
         ELSE pc' = "part1" /\ i' = first_start_idx /\ error' = error
    /\ UNCHANGED <<total_pages, reads, writer, pages_added, out_file>>
    /\ UNCHANGED <<env_vars, g_vars>>

\* writer.add_page(reader.pages[i]); pages_added += 1
AddPage ==
    LET p == PageAt(i, total_pages) IN
      /\ reads' = Append(reads, i)
      /\ IF p = None
         THEN /\ Raise(Handle(Exc("IndexError", "page_index_out_of_range", i, total_pages)))
              /\ UNCHANGED <<i, writer, pages_added>>
         ELSE /\ writer' = Append(writer, p)
              /\ pages_added' = pages_added + 1
              /\ i' = i + 1
              /\ UNCHANGED <<pc, error>>

AddFirstRangePage ==
    /\ pc = "part1"
    /\ i < first_end_idx
    /\ AddPage
    /\ UNCHANGED <<total_pages, out_file>>
    /\ UNCHANGED <<env_vars, g_vars>>

FirstRangeDone ==
    /\ pc = "part1"
    /\ i >= first_end_idx
    /\ IF second_start_idx < total_pages
       THEN pc' = "part2" /\ i' = second_start_idx
       ELSE pc' = "mkdir" /\ i' = i
    /\ UNCHANGED <<total_pages, reads, writer, pages_added, out_file, error>>
    /\ UNCHANGED <<env_vars, g_vars>>

AddSecondPartPage ==
    /\ pc = "part2"
    /\ i < total_pages
    /\ AddPage
    /\ UNCHANGED <<total_pages, out_file>>
    /\ UNCHANGED <<env_vars, g_vars>>

SecondPartDone ==
    /\ pc = "part2"
    /\ i >= total_pages
    /\ pc' = "mkdir"
    /\ UNCHANGED <<total_pages, i, reads, writer, pages_added, out_file, error>>
    /\ UNCHANGED <<env_vars, g_vars>>

\* reader.pages[i] fails on a page the codec cannot read.
PageReadFails ==
    /\ \/ pc = "part1" /\ i < first_end_idx
       \/ pc = "part2" /\ i < total_pages
    /\ reads' = Append(reads, i)
    /\ Raise(Handle(Exc("PdfReadError", "cannot_read_page", i, total_pages)))
    /\ UNCHANGED <<total_pages, i, writer, pages_added, out_file>>
    /\ UNCHANGED <<env_vars, g_vars>>

MakeOutputDir ==
    /\ pc = "mkdir"
    /\ pc' = "open"
    /\ UNCHANGED <<total_pages, i, reads, writer, pages_added, out_file, error>>
    /\ UNCHANGED <<env_vars, g_vars>>

MakeOutputDirFails ==
    /\ pc = "mkdir"
    /\ Raise(Handle(Exc("OSError", "cannot_create_directory", 0, 0)))
    /\ UNCHANGED <<total_pages, i, reads, writer, pages_added, out_file>>
    /\ UNCHANGED <<env_vars, g_vars>>

\* open(output_path, "wb") creates or truncates the file.
OpenOutput ==
    /\ pc = "open"
    /\ out_file' = PartialFile
    /\ pc' = "write"
    /\ UNCHANGED <<total_pages, i, reads, writer, pages_added, error>>
    /\ UNCHANGED <<env_vars, g_vars>>

OpenOutputFails ==
    /\ pc = "open"
    /\ Raise(Handle(Exc("OSError", "cannot_open_output", 0, 0)))
    /\ UNCHANGED <<total_pages, i, reads, writer, pages_added, out_file>>
    /\ UNCHANGED <<env_vars, g_vars>>

WriteOutput ==
    /\ pc = "write"
    /\ out_file' = CompleteFile(writer)
    /\ pc' = "returned"
    /\ UNCHANGED <<total_pages, i, reads, writer, pages_added, error>>
    /\ UNCHANGED <<env_vars, g_vars>>

\* writer.write(f_out) fails part way; the with block closes the file and
\* nothing removes it.
WriteOutputFails ==
    /\ pc = "write"
    /\ Raise(Handle(Exc("OSError", "cannot_write_output", 0, 0)))
    /\ UNCHANGED <<total_pages, i, reads, writer, pages_added, out_file>>
    /\ UNCHANGED <<env_vars, g_vars>>

Next ==
    \/ ValidateInput
    \/ OpenReader
    \/ OpenReaderFails
    \/ ValidateRanges
    \/ AddFirstRangePage
    \/ FirstRangeDone
    \/ AddSecondPartPage
    \/ SecondPartDone
    \/ PageReadFails
    \/ MakeOutputDir
    \/ MakeOutputDirFails
    \/ OpenOutput
    \/ OpenOutputFails
    \/ WriteOutput
    \/ WriteOutputFails

Spec == Init /\ [][Next]_vars

----------------------------------------------------------------------------
\* generate_report.py

GenFirstEnd == 10
GenSecondStart_early == 13 - 1
GenSecondStart == 13

\* os.path.exists(input_filename)
GenCheckExists ==
    /\ g_pc = "g_exists"
    /\ g_pc' = IF input_kind = "missing" THEN "g_returned" ELSE "g_read"
    /\ UNCHANGED <<g_total, g_i, g_writer, g_file>>
    /\ UNCHANGED <<env_vars, s_vars>>

\* PdfReader(input_filename); a directory cannot be opened, and the
\* except clause prints and returns.
GenOpenReader ==
    /\ g_pc = "g_read"
    /\ IF input_kind = "not_file"
       THEN g_pc' = "g_returned" /\ UNCHANGED <<g_total, g_i>>
       ELSE g_pc' = "g_part1" /\ g_total' = doc_pages /\ g_i' = 0
    /\ UNCHANGED <<g_writer, g_file>>
    /\ UNCHANGED <<env_vars, s_vars>>

GenAddPage ==
    LET p == PageAt(g_i, g_total) IN
      IF p = None
      THEN g_pc' = "g_returned" /\ UNCHANGED <<g_i, g_writer>>
      ELSE g_writer' = Append(g_writer, p) /\ g_i' = g_i + 1 /\ g_pc' = g_pc

GenAddFirstPage ==
    /\ g_pc = "g_part1"
    /\ g_i < GenFirstEnd
    /\ GenAddPage
    /\ UNCHANGED <<g_total, g_file>>
    /\ UNCHANGED <<env_vars, s_vars>>

GenFirstDone ==
    /\ g_pc = "g_part1"
    /\ g_i >= GenFirstEnd
    /\ g_pc' = "g_part2"
    /\ g_i' = GenSecondStart
    /\ UNCHANGED <<g_total, g_writer, g_file>>
    /\ UNCHANGED <<env_vars, s_vars>>

GenAddSecondPage ==
    /\ g_pc = "g_part2"
    /\ g_i < g_total
    /\ GenAddPage
    /\ UNCHANGED <<g_total, g_file>>
    /\ UNCHANGED <<env_vars, s_vars>>

GenSecondDone ==
    /\ g_pc = "g_part2"
    /\ g_i >= g_total
    /\ g_pc' = "g_open"
    /\ UNCHANGED <<g_total, g_i, g_writer, g_file>>
    /\ UNCHANGED <<env_vars, s_vars>>

GenOpenOutput ==
    /\ g_pc = "g_open"
    /\ g_file' = PartialFile
    /\ g_pc' = "g_write"
    /\ UNCHANGED <<g_total, g_i, g_writer>>
    /\ UNCHANGED <<env_vars, s_vars>>

GenWriteOutput ==
    /\ g_pc = "g_write"
    /\ g_file' = CompleteFile(g_writer)
    /\ g_pc' = "g_returned"
    /\ UNCHANGED <<g_total, g_i, g_writer>>
    /\ UNCHANGED <<env_vars, s_vars>>

\* Any statement of the try block fails on the file system or in the codec;
\* except Exception prints and the function returns.
GenFails ==
    /\ g_pc \in {"g_read", "g_part1", "g_part2", "g_open", "g_write"}
    /\ g_pc' = "g_returned"
    /\ UNCHANGED <<g_total, g_i, g_writer, g_file>>
    /\ UNCHANGED <<env_vars, s_vars>>

\* Both scripts run on the same input with split_pdf's default ranges.
InitCompare ==
    /\ input_kind \in InputKinds
    /\ pages_first_range = DefaultFirstRange
    /\ pages_skip_range = DefaultSkipRange
    /\ doc_pages \in 0..MaxDefaultPages
    /\ pc = "validate_input"
    /\ total_pages = None
    /\ i = 0
    /\ reads = <<>>
    /\ writer = <<>>
    /\ pages_added = 0
    /\ out_file = AbsentFile
    /\ error = NoError
    /\ g_pc = "g_exists"
    /\ g_total = None
    /\ g_i = 0
    /\ g_writer = <<>>
    /\ g_file = AbsentFile

NextCompare ==
    \/ Next
    \/ GenCheckExists
    \/ GenOpenReader
    \/ GenAddFirstPage
    \/ GenFirstDone
    \/ GenAddSecondPage
    \/ GenSecondDone
    \/ GenOpenOutput
    \/ GenWriteOutput
    \/ GenFails

SpecCompare == InitCompare /\ [][NextCompare]_vars

----------------------------------------------------------------------------
\* Properties

\* <<a, a+1, ..., b-1>>, empty when b <= a: the indices of range(a, b).
SeqRange(a, b) == [k \in 1..(IF b > a THEN b - a ELSE 0) |-> a + k - 1]

IsPrefix(s, t) == Len(s) <= Len(t) /\ \A k \in 1..Len(s) : s[k] = t[k]

NoDuplicates(s) == \A j, k \in 1..Len(s) : j # k => s[j] # s[k]

AfterLoops == {"mkdir", "open", "write", "returned"}
Ended == {"returned", "raised"}

IsDefaultCall == pages_first_range = <<1, 10>> /\ pages_skip_range = <<11, 13>>

WellFormed(r) == 1 <= r[1] /\ r[1] <= r[2]

InSkipRange(p) == pages_skip_range[1] <= p + 1 /\ p + 1 <= pages_skip_range[2]

\* C1: with first range (1,10) and skip range (11,13) on a document of
\* totalPages >= 13, the pages appended are exactly 0..9 then
\* 13..totalPages-1, in that order, none repeated, totalPages-3 in all; the
\* appended pages are a prefix of that sequence while the loops run, no range
\* error is raised, and the file written on success holds that sequence.
C1_DefaultRangesOutput ==
    (IsDefaultCall /\ total_pages # None /\ total_pages >= 13) =>
        LET expected == SeqRange(0, 10) \o SeqRange(13, total_pages) IN
          /\ IsPrefix(writer, expected)
          /\ reads \in {writer, writer \o <<Len(writer) + (IF Len(writer) < 10 THEN 0 ELSE 3)>>}
          /\ pc \in AfterLoops =>
                /\ writer = expected
                /\ Len(writer) = total_pages - 3
                /\ pages_added = total_pages - 3
                /\ NoDuplicates(writer)
          /\ pc = "returned" => out_file = CompleteFile(expected)
          /\ pc = "raised" => error.type = "IOError"

C1_Witness ==
    /\ IsDefaultCall
    /\ total_pages = 20
    /\ pc = "returned"
    /\ Len(out_file.pages) = 17
    /\ out_file.pages[10] = 9
    /\ out_file.pages[11] = 13

\* C2 as stated: when the skip range starts beyond the document (skip start
\* > totalPages) and the first range is valid, no range error is raised and
\* a successful run writes exactly the first-range pages.
C2_SkipPastEndIsNoOp ==
    (/\ total_pages # None
     /\ pages_skip_range[1] > total_pages
     /\ 1 <= pages_first_range[1]
     /\ pages_first_range[1] <= pages_first_range[2]
     /\ pages_first_range[2] <= total_pages) =>
        /\ ~(pc = "raised" /\ error.type = "ValueError")
        /\ pc = "returned" =>
              out_file = CompleteFile(SeqRange(pages_first_range[1] - 1, pages_first_range[2]))

\* C2 amended: when the skip range starts beyond the document (skip start >
\* totalPages), range validation ends the run with a ValueError and nothing
\* is read, appended or written; when the first range is itself within the
\* document the error is the skip-start error, carrying the skip start and
\* totalPages.
C2_SkipPastEndRejected ==
    (total_pages # None /\ pages_skip_range[1] > total_pages /\ pc # "validate_ranges") =>
        /\ pc = "raised"
        /\ error.type = "ValueError"
        /\ error.total = total_pages
        /\ reads = <<>>
        /\ writer = <<>>
        /\ out_file = AbsentFile
        /\ (1 <= pages_first_range[1] /\ pages_first_range[2] <= total_pages) =>
              error = Exc("ValueError", "skip_range_start_exceeds_total",
                          pages_skip_range[1], total_pages)

C2_Witness ==
    /\ IsDefaultCall
    /\ total_pages = 10
    /\ pc = "raised"
    /\ error = Exc("ValueError", "skip_range_start_exceeds_total", 11, 10)
    /\ writer = <<>>

\* C3: in a successful run no source page whose 1-indexed number lies in
\* [skip_start, skip_end] is in the output; stated for ranges with
\* 1 <= start <= end, where only a first range overlapping the skip range
\* can bring such a page in.
C3_SkipPagesExcluded ==
    (pc = "returned" /\ WellFormed(pages_first_range) /\ WellFormed(pages_skip_range)) =>
        \A k \in 1..Len(out_file.pages) : ~InSkipRange(out_file.pages[k])

\* C4: in a successful run each source page is in the output at most once;
\* stated for ranges with 1 <= start <= end, where only a first range
\* reaching past the end of the skip range can repeat a page.
C4_NoDuplicatePages ==
    (pc = "returned" /\ WellFormed(pages_first_range) /\ WellFormed(pages_skip_range)) =>
        NoDuplicates(out_file.pages)

\* C5: every index i used in reader.pages[i] satisfies 0 <= i < totalPages.
C5_ReadIndicesValid ==
    \A k \in 1..Len(reads) : 0 <= reads[k] /\ reads[k] < total_pages

\* C6: when the first range's end exceeds totalPages, range validation ends
\* the run with a ValueError that carries the first range's end and
\* totalPages, and no page has been read or appended and no file written.
C6_FirstEndExceedsRejected ==
    (total_pages # None /\ pages_first_range[2] > total_pages /\ pc # "validate_ranges") =>
        /\ pc = "raised"
        /\ error = Exc("ValueError", "first_range_end_exceeds_total",
                       pages_first_range[2], total_pages)
        /\ reads = <<>>
        /\ writer = <<>>
        /\ pages_added = 0
        /\ out_file = AbsentFile

C6_Witness ==
    /\ pages_first_range = <<1, 5>>
    /\ total_pages = 3
    /\ pc = "raised"
    /\ error = Exc("ValueError", "first_range_end_exceeds_total", 5, 3)

\* C7: when the first range has start > end, range validation ends the run
\* with a ValueError and no page is copied; the run never succeeds.  Stated
\* for a first range with start >= 1 and a skip range with 1 <= start <= end,
\* so that the inverted first range is the only fault of the call.
C7_InvertedFirstRangeRejected ==
    (total_pages # None /\ pages_first_range[1] > pages_first_range[2]
        /\ pages_first_range[1] >= 1 /\ WellFormed(pages_skip_range)
        /\ pc # "validate_ranges") =>
        /\ pc = "raised"
        /\ error.type = "ValueError"
        /\ writer = <<>>

\* C8: when the first range or the skip range has start < 1, range
\* validation ends the run with a ValueError and no page is copied.
C8_StartBelowOneRejected ==
    (total_pages # None /\ (pages_first_range[1] < 1 \/ pages_skip_range[1] < 1)
        /\ pc # "validate_ranges") =>
        /\ pc = "raised"
        /\ error.type = "ValueError"
        /\ writer = <<>>

\* C9: input validation and range validation are over before the first page
\* is read; the output file is opened only after every page has been
\* fetched; and a run that ends in an error leaves no partially written file
\* at the output path.
C9_ValidateBeforeCopyNoPartialOutput ==
    /\ pc \in {"validate_input", "read", "validate_ranges"} => reads = <<>> /\ writer = <<>>
    /\ (pc = "raised" /\ error.type \in {"FileNotFoundError", "ValueError"}) => reads = <<>>
    /\ out_file # AbsentFile => pc \in {"write", "returned", "raised"}
    /\ pc \in {"part1", "part2", "mkdir", "open"} => out_file = AbsentFile
    /\ pc = "raised" => out_file.state # "partial"

\* C10 as stated: whenever generate_exploring_ai_report has written its
\* output from an input named *.pdf and the run of
\* create_exploring_ai_report with the default ranges on the same input has
\* ended other than by an I/O failure of its own, that run succeeded and
\* wrote the same pages.
C10_SplitRefinesGenerate ==
    (g_file.state = "complete" /\ input_kind = "ok" /\ pc \in Ended
        /\ error.type # "IOError") =>
        /\ pc = "returned"
        /\ out_file = CompleteFile(g_file.pages)

\* C10 amended: the same, for totalPages >= 11; the pages written by both
\* are 0..9 then 13..totalPages-1.
C10_SplitRefinesGenerateFrom11 ==
    (/\ g_file.state = "complete"
     /\ input_kind = "ok"
     /\ doc_pages >= 11
     /\ pc \in Ended
     /\ error.type # "IOError") =>
        /\ pc = "returned"
        /\ out_file = CompleteFile(g_file.pages)
        /\ out_file.pages = SeqRange(0, 10) \o SeqRange(13, doc_pages)

C10_Witness ==
    /\ g_file.state = "complete"
    /\ input_kind = "ok"
    /\ doc_pages = 15
    /\ pc = "returned"
    /\ out_file.pages = g_file.pages
    /\ Len(out_file.pages) = 12

====
